---- MODULE Spec2Model ----
(***************************************************************************)
(* Entity core of the goworld game server: the type registry, the entity   *)
(* table, the client ownership index, the service directory, the           *)
(* createEntity lifecycle, storage loads, and freeze / restore.            *)
(* The runtime is single-threaded: every action below is one top-level     *)
(* task of the main loop, run from its first statement to its return (or   *)
(* to the panic that ends it).                                             *)
(***************************************************************************)
EXTENDS Integers, Sequences, FiniteSets, TLC

(***************************************************************************)
(* Bounds of the model.                                                    *)
(***************************************************************************)
MaxEntityId == 3
MaxClientId == 3
MaxService == 2
MaxKind == 1
\* Entity ids in play where clients are bound and unbound.
MaxBound == 2
\* Storage loads in flight at once.
MaxLoads == 2
\* Attribute names a type's DefineAttrs calls classify.
MaxAttr == 2

(***************************************************************************)
(* Values.                                                                 *)
(***************************************************************************)
\* EntityID "" (EntityID.IsNil()).
NilEntityID == 0
EntityIds == 1..MaxEntityId
ClientIds == 1..MaxClientId
ServiceNames == 1..MaxService
AttrNames == 1..MaxAttr
SpaceKinds == 0..MaxKind

SPACE_ENTITY_TYPE == "__space__"
PlayerType == "Player"
TypeNames == {SPACE_ENTITY_TYPE, PlayerType}
\* A user type whose OnCreated, OnMigrateIn and OnRestored panic.
RaisingType == "Monster"
AllTypes == TypeNames \cup {RaisingType}

ccCreate == 1
ccMigrate == 2
ccRestore == 3
Causes == {ccCreate, ccMigrate, ccRestore}

\* A client session is connected through one gate: clients 1 and 2 through
\* gate 1, clients 3 and 4 through gate 2, ...
GateOf(c) == ((c + 1) \div 2)
GateIds == {GateOf(c) : c \in ClientIds}

\* nil *GameClient, and MakeGameClient(clientid, gateid).
NoClient == [clientid |-> 0, gateid |-> 0]
MakeGameClient(c, g) == [clientid |-> c, gateid |-> g]
GameClients == {MakeGameClient(c, GateOf(c)) : c \in ClientIds}

\* data == nil, and an attribute map (of which the model keeps the space kind).
NoData == [present |-> FALSE, kind |-> 0]
MakeData(k) == [present |-> TRUE, kind |-> k]

\* What a Go panic carries: a value that implements error, or one that does not.
NoFault == "none"
PanicValues == {"error", "nonerror"}

VARIABLES
    registeredEntityTypes,  \* keys of the type registry
    entities,               \* entityManager.entities: id -> entity
    ownerOfClient,          \* entityManager.ownerOfClient: clientid -> id
    registeredServices,     \* entityManager.registeredServices: name -> set of ids
    descs,                  \* the type registry's descriptors: type name -> attribute sets
    declared,               \* the (service, entity) declarations made and not yet undeclared
    pendingLoads,           \* storage.Load requests whose completion is not yet delivered
    posted,                 \* tasks handed to post.Post and not yet run
    snapshot,               \* the FreezeData handed from Freeze to the restarted process
    phase,                  \* "running", or "frozen" once Freeze has returned a snapshot
    frozen,                 \* the maps as they were when the snapshot was taken
    log,                    \* what the last task did, in order
    lastOp                  \* the last task: entry point, arguments, result

vars == <<registeredEntityTypes, descs, entities, ownerOfClient, registeredServices,
          declared, pendingLoads, posted, snapshot, phase, frozen, log, lastOp>>

(***************************************************************************)
(* Maps with Go's semantics: a missing key reads as the zero value.        *)
(***************************************************************************)
MapPut(f, k, v) == [x \in (DOMAIN f) \cup {k} |-> IF x = k THEN v ELSE f[x]]
MapDel(f, k) == [x \in (DOMAIN f) \ {k} |-> f[x]]
EmptyMap == [x \in {} |-> 0]
ListSet(l) == {l[i] : i \in 1..Len(l)}

\* One step of a task, as the log records it.
Ev(name, id, cause) == <<name, id, cause>>

\* The last task: its entry point, the entity id and the other id (client,
\* gate or service) it was called with, the panic it ended with, and the
\* error it returned (for LoadComplete: the error storage reported). For
\* Restore, arg is the number of entries the three maps held at entry.
NoOp == [op |-> "init", id |-> NilEntityID, arg |-> 0, fault |-> NoFault, err |-> FALSE]

\* The entity manager as the task in progress sees it: the two maps it
\* mutates, the steps taken so far, and the panic in flight (if any).
Manager(ents, owner) ==
    [entities |-> ents, ownerOfClient |-> owner, log |-> <<>>, fault |-> NoFault]

Logged(m, name, id, cause) == [m EXCEPT !.log = Append(@, Ev(name, id, cause))]

(***************************************************************************)
(* EntityManager.                                                          *)
(***************************************************************************)
put(ents, id, entity) == MapPut(ents, id, entity)

\* A freshly allocated entity, and entity.init(typeName, entityID, instance).
\* esr is the record of an EnterSpace in flight (0: none).
del(ents, entityID) == MapDel(ents, entityID)

\* EntityManager.get: <<>> for nil, <<entity>> otherwise.
get(ents, id) == IF id \in DOMAIN ents THEN <<ents[id]>> ELSE <<>>

NewEntity(typeName) ==
    [typeName |-> typeName, ID |-> NilEntityID, kind |-> 0, client |-> NoClient,
     space |-> 0, esr |-> 0]

init(entity, entityID) == [entity EXCEPT !.ID = entityID]

onEntityLoseClient(owner, clientid) == MapDel(owner, clientid)

onEntityGetClient(owner, entityID, clientid) == MapPut(owner, clientid, entityID)

\* Entity.SetClient: the full bind protocol. The old binding of the entity
\* is torn down, a prior owner of the new client loses it, the new binding
\* is recorded.
SetClient(m, id, client) ==
    LET old == m.entities[id].client
    IN  IF old = client THEN m
        ELSE
          LET own1 == IF old # NoClient
                      THEN onEntityLoseClient(m.ownerOfClient, old.clientid)
                      ELSE m.ownerOfClient
              ents1 == [x \in DOMAIN m.entities |->
                          IF /\ client # NoClient
                             /\ x # id
                             /\ m.entities[x].client.clientid = client.clientid
                          THEN [m.entities[x] EXCEPT !.client = NoClient]
                          ELSE m.entities[x]]
              ents2 == [ents1 EXCEPT ![id].client = client]
              own2 == IF client # NoClient
                      THEN onEntityGetClient(own1, id, client.clientid)
                      ELSE own1
          IN  [m EXCEPT !.entities = ents2, !.ownerOfClient = own2]

\* A client no entity is bound to and the index does not hold.
FreeClient(m, c) ==
    /\ c \notin DOMAIN m.ownerOfClient
    /\ \A x \in DOMAIN m.entities : m.entities[x].client.clientid # c

\* What the entity's OnClientDisconnected hook does with its own binding.
NoReaction == [do |-> "none", to |-> 0]
Reactions ==
    {NoReaction, [do |-> "clear", to |-> 0]}
        \cup {[do |-> "rebind", to |-> c] : c \in ClientIds}

\* Entity.notifyClientDisconnected: the entity drops its client, then its
\* OnClientDisconnected hook runs.
notifyClientDisconnected(m, id, r) ==
    LET m1 == Logged([m EXCEPT !.entities[id].client = NoClient],
                     "notifyClientDisconnected", id, 0)
    IN  CASE r.do = "clear" -> SetClient(m1, id, NoClient)
          [] r.do = "rebind" /\ FreeClient(m1, r.to) ->
                 SetClient(m1, id, MakeGameClient(r.to, GateOf(r.to)))
          [] OTHER -> m1

(***************************************************************************)
(* createEntity.                                                           *)
(***************************************************************************)
\* Faulty variant: every cause dispatches OnCreated.
CallbackOfAlwaysCreated(cause) == "OnCreated"

CallbackOf(cause) ==
    CASE cause = ccCreate -> "OnCreated"
      [] cause = ccMigrate -> "OnMigrateIn"
      [] cause = ccRestore -> "OnRestored"
      [] OTHER -> "none"

\* Faulty variant: data is always loaded as persistent data.
MaterializeAlwaysPersistent(m, id, data, cause) ==
    IF data.present
    THEN Logged([m EXCEPT !.entities[id].kind = data.kind], "LoadPersistentData",
                id, cause)
    ELSE Logged(m, "Save", id, cause)

\* data != nil: LoadPersistentData on Create, LoadMigrateData otherwise;
\* data == nil: Save.
Materialize(m, id, data, cause) ==
    IF data.present
    THEN Logged([m EXCEPT !.entities[id].kind = data.kind],
                IF cause = ccCreate THEN "LoadPersistentData" ELSE "LoadMigrateData",
                id, cause)
    ELSE Logged(m, "Save", id, cause)

\* Faulty variant: the dispatcher is told of fresh creations only, not of restores.
NotifyCreateOnlyOnCreate(m, id, cause) ==
    IF cause = ccCreate
    THEN Logged(m, "SendNotifyCreateEntity", id, cause)
    ELSE m

NotifyCreate(m, id, cause) ==
    IF cause = ccCreate \/ cause = ccRestore
    THEN Logged(m, "SendNotifyCreateEntity", id, cause)
    ELSE m

\* Faulty variant: the quiet bind records the owner but leaves the entity's client
\* field unset.
BindClientIndexOnly(m, id, client, cause) ==
    IF client # NoClient
    THEN IF cause = ccCreate
         THEN Logged(SetClient(m, id, client), "SetClient", id, cause)
         ELSE Logged([m EXCEPT
                        !.ownerOfClient = onEntityGetClient(@, id, client.clientid)],
                     "onEntityGetClient", id, cause)
    ELSE m

BindClient(m, id, client, cause) ==
    IF client # NoClient
    THEN IF cause = ccCreate
         THEN Logged(SetClient(m, id, client), "SetClient", id, cause)
         ELSE Logged([m EXCEPT
                        !.entities[id].client = client,
                        !.ownerOfClient = onEntityGetClient(@, id, client.clientid)],
                     "onEntityGetClient", id, cause)
    ELSE m

\* Whether the callbacks of the user type panic.
CallbackRaises(typeName) == typeName = RaisingType

\* gwutils.RunPanicless(f): f runs; a panic of f is recovered and logged.
RunPanicless(m, id, cause, raises) ==
    IF raises THEN Logged(m, "recover", id, cause) ELSE m

\* Faulty variant: the callback is called directly, so its panic unwinds createEntity.
RunCallbackUnwrapped(m, id, cause) ==
    IF CallbackOf(cause) # "none"
    THEN LET m1 == Logged(m, CallbackOf(cause), id, cause)
         IN  IF CallbackRaises(m.entities[id].typeName)
             THEN [m1 EXCEPT !.fault = "error"]
             ELSE m1
    ELSE m

RunCallback(m, id, cause) ==
    IF CallbackOf(cause) # "none"
    THEN RunPanicless(Logged(m, CallbackOf(cause), id, cause), id, cause,
                      CallbackRaises(m.entities[id].typeName))
    ELSE m

\* space.enter(entity, pos, cause == ccRestore)
EnterSpaceOf(m, id, space, cause) ==
    IF space # 0
    THEN Logged([m EXCEPT !.entities[id].space = space], "enter", id, cause)
    ELSE m

\* createEntity(typeName, space, pos, entityID, data, timerData, client, cause);
\* gen is the id GenEntityID returns, pv the value gwlog.Panicf panics with.
\* The log also records the space, the client and whether data was supplied.
LoggedArgs(m, space, data, client, cause) ==
    Logged(Logged(Logged(m, "arg.space", space, cause),
                  "arg.client", client.clientid, cause),
           "arg.data", IF data.present THEN 1 ELSE 0, cause)

\* Faulty variant: an empty entityID is kept.
EntityIDForNoGen(entityID, gen) == entityID

\* if entityID == "" { entityID = GenEntityID() }
EntityIDFor(entityID, gen) == IF entityID = NilEntityID THEN gen ELSE entityID

createEntity(m, typeName, space, entityID, data, client, cause, gen, pv) ==
    LET id == EntityIDFor(entityID, gen)
        m0 == Logged(m, "createEntity", entityID, cause)
    IN  IF typeName \notin registeredEntityTypes
        THEN [Logged(m0, "Panicf", entityID, cause) EXCEPT !.fault = pv]
        ELSE
          LET ma == LoggedArgs(m0, space, data, client, cause)
              m1 == Logged([ma EXCEPT !.entities =
                                         put(@, id, init(NewEntity(typeName), id))],
                           "put", id, cause)
              m2 == Materialize(m1, id, data, cause)
              m3 == NotifyCreate(m2, id, cause)
              m4 == BindClient(m3, id, client, cause)
              m5 == RunCallback(m4, id, cause)
          IN  IF m5.fault # NoFault
              THEN Logged(m5, "panic", id, cause)
              ELSE Logged(EnterSpaceOf(m5, id, space, cause), "return", id, cause)

(***************************************************************************)
(* The process after construction: empty registry, empty manager.          *)
(***************************************************************************)
Init ==
    /\ registeredEntityTypes = {}
    /\ entities = EmptyMap
    /\ ownerOfClient = EmptyMap
    /\ registeredServices = EmptyMap
    /\ descs = EmptyMap
    /\ declared = {}
    /\ pendingLoads = {}
    /\ posted = <<>>
    /\ snapshot = <<>>
    /\ phase = "running"
    /\ frozen = <<>>
    /\ log = <<>>
    /\ lastOp = NoOp

Running == phase = "running"

\* The manager at the start of a task, and its state written back at the end.
Current == Manager(entities, ownerOfClient)

Commit(m, op) ==
    /\ entities' = m.entities
    /\ ownerOfClient' = m.ownerOfClient
    /\ log' = m.log
    /\ lastOp' = [op EXCEPT !.fault = m.fault]

\* Ids GenEntityID can return: never one that is in use anywhere (a space a
\* pending load was asked to enter included, resident or destroyed).
UsedIds ==
    DOMAIN entities
        \cup {l.id : l \in pendingLoads}
        \cup ({l.space : l \in pendingLoads} \ {0})
        \cup (IF snapshot = <<>> THEN {} ELSE DOMAIN snapshot[1].Entities)
FreshIds == EntityIds \ UsedIds

\* The space manager knows the resident entities of the space type.
getSpace(ents, spaceID) ==
    IF spaceID \in DOMAIN ents /\ ents[spaceID].typeName = SPACE_ENTITY_TYPE
    THEN spaceID
    ELSE 0

ResidentSpaces == {x \in DOMAIN entities : getSpace(entities, x) # 0}

\* The attribute maps callers pass: a space carries its kind, any other
\* entity either nothing (data == nil) or a map without a kind.
DataFor(typeName) ==
    IF typeName = SPACE_ENTITY_TYPE
    THEN {MakeData(k) : k \in SpaceKinds}
    ELSE {NoData, MakeData(0)}

\* The descriptor RegisterEntity installs: three empty attribute sets.
NewDesc == [allClientAttrs |-> {}, clientAttrs |-> {}, persistentAttrs |-> {}]

\* Attribute defs are strings whose letter case matters: they are kept as
\* their code points.
Str_Client == <<67, 108, 105, 101, 110, 116>>
Str_AllClients == <<65, 108, 108, 67, 108, 105, 101, 110, 116, 115>>
Str_Persistent == <<80, 101, 114, 115, 105, 115, 116, 101, 110, 116>>
Str_client == <<99, 108, 105, 101, 110, 116>>
Str_allclients == <<97, 108, 108, 99, 108, 105, 101, 110, 116, 115>>
Str_persistent == <<112, 101, 114, 115, 105, 115, 116, 101, 110, 116>>

\* strings.ToLower: the letters A..Z move to a..z, the rest stays.
ToLower(str) == [i \in DOMAIN str |-> IF str[i] \in 65..90 THEN str[i] + 32 ELSE str[i]]

\* _VALID_ATTR_DEFS as init() fills it.
VALID_ATTR_DEFS == {ToLower(Str_Client), ToLower(Str_AllClients), ToLower(Str_Persistent)}

NoFlags == [isAllClient |-> FALSE, isClient |-> FALSE, isPersistent |-> FALSE,
            invalid |-> FALSE]

\* Faulty variant: allclients does not make the attribute a client attribute.
RECURSIVE attrFlagsAllClientOnly(_, _)
attrFlagsAllClientOnly(defs, flags) ==
    IF defs = <<>>
    THEN flags
    ELSE LET def == ToLower(Head(defs))
         IN  IF def \notin VALID_ATTR_DEFS
             THEN [flags EXCEPT !.invalid = TRUE]
             ELSE attrFlagsAllClientOnly(Tail(defs),
                    IF def = Str_allclients
                    THEN [flags EXCEPT !.isAllClient = TRUE]
                    ELSE IF def = Str_client
                    THEN [flags EXCEPT !.isClient = TRUE]
                    ELSE IF def = Str_persistent
                    THEN [flags EXCEPT !.isPersistent = TRUE]
                    ELSE flags)

\* DefineAttrs' inner loop over one attribute's defs: the three flags, and
\* invalid when a def is not a valid one (gwlog.Panicf ends the loop there).
RECURSIVE attrFlags(_, _)
attrFlags(defs, flags) ==
    IF defs = <<>>
    THEN flags
    ELSE LET def == ToLower(Head(defs))
         IN  IF def \notin VALID_ATTR_DEFS
             THEN [flags EXCEPT !.invalid = TRUE]
             ELSE attrFlags(Tail(defs),
                    IF def = Str_allclients
                    THEN [flags EXCEPT !.isAllClient = TRUE, !.isClient = TRUE]
                    ELSE IF def = Str_client
                    THEN [flags EXCEPT !.isClient = TRUE]
                    ELSE IF def = Str_persistent
                    THEN [flags EXCEPT !.isPersistent = TRUE]
                    ELSE flags)

\* StringSet.Add under a flag.
AddIf(flag, set, attr) == IF flag THEN set \cup {attr} ELSE set

\* DefineAttrs' outer loop, attribute by attribute in the order the map is
\* ranged over; a panic leaves the attributes already added.
RECURSIVE defineAttrs(_, _, _)
defineAttrs(desc, attrDefs, order) ==
    IF order = <<>>
    THEN [desc |-> desc, panicked |-> FALSE]
    ELSE LET attr == Head(order)
             flags == attrFlags(attrDefs[attr], NoFlags)
         IN  IF flags.invalid
             THEN [desc |-> desc, panicked |-> TRUE]
             ELSE defineAttrs(
                    [allClientAttrs |-> AddIf(flags.isAllClient, desc.allClientAttrs, attr),
                     clientAttrs |-> AddIf(flags.isClient, desc.clientAttrs, attr),
                     persistentAttrs |-> AddIf(flags.isPersistent, desc.persistentAttrs, attr)],
                    attrDefs, Tail(order))

\* Two strings that differ in letter case at most.
EqualFold(a, b) ==
    /\ Len(a) = Len(b)
    /\ \A i \in DOMAIN a :
          \/ a[i] = b[i]
          \/ a[i] \in 65..90 /\ b[i] = a[i] + 32
          \/ b[i] \in 65..90 /\ a[i] = b[i] + 32

\* What a DefineAttrs call was given, as far as the attribute sets are
\* concerned: the attributes with an allclients def in any letter case, and
\* those among them where it is not written in lower case.
TaggedAllClients(attrDefs) ==
    {a \in DOMAIN attrDefs :
        \E i \in DOMAIN attrDefs[a] : EqualFold(attrDefs[a][i], Str_allclients)}

TaggedInUpperCase(attrDefs) ==
    {a \in DOMAIN attrDefs :
        \E i \in DOMAIN attrDefs[a] :
            /\ EqualFold(attrDefs[a][i], Str_allclients)
            /\ attrDefs[a][i] # Str_allclients}

\* desc.DefineAttrs(attrDefs) on the descriptor RegisterEntity returned for
\* typeName. order is the order the map is ranged over, pv the value
\* gwlog.Panicf panics with.
DefineAttrs(typeName, attrDefs, order, pv) ==
    /\ Running
    /\ typeName \in DOMAIN descs
    /\ LET r == defineAttrs(descs[typeName], attrDefs, order)
       IN  /\ descs' = [descs EXCEPT ![typeName] = r.desc]
           /\ log' = IF r.panicked THEN <<Ev("Panicf", NilEntityID, 0)>> ELSE <<>>
           /\ lastOp' = [NoOp EXCEPT !.op = "DefineAttrs",
                                     !.arg = [typeName |-> typeName,
                                              allclients |-> TaggedAllClients(attrDefs),
                                              upper |-> TaggedInUpperCase(attrDefs)],
                                     !.fault = IF r.panicked THEN pv ELSE NoFault]
    /\ UNCHANGED <<registeredEntityTypes, entities, ownerOfClient, registeredServices,
                   declared, pendingLoads, posted, snapshot, phase, frozen>>

RegisterEntity(typeName) ==
    /\ Running
    /\ typeName \notin registeredEntityTypes
    /\ registeredEntityTypes' = registeredEntityTypes \cup {typeName}
    /\ log' = <<>>
    /\ lastOp' = [NoOp EXCEPT !.op = "RegisterEntity"]
    /\ descs' = MapPut(descs, typeName, NewDesc)
    /\ UNCHANGED <<entities, ownerOfClient, registeredServices, declared, pendingLoads,
                   posted, snapshot, phase, frozen>>

\* CreateEntityLocally(typeName, data, client)
CreateEntityLocally(typeName, data, client, gen, pv) ==
    /\ Running
    /\ Commit(createEntity(Current, typeName, 0, NilEntityID, data, client,
                           ccCreate, gen, pv),
              [NoOp EXCEPT !.op = "CreateEntityLocally", !.arg = client.clientid])
    /\ UNCHANGED <<declared, posted, descs, registeredEntityTypes, registeredServices, pendingLoads,
                   snapshot, phase, frozen>>

\* An entity arrives from a peer: createEntity with cause ccMigrate.
MigrateIn(typeName, space, entityID, data, client, pv) ==
    /\ Running
    /\ Commit(createEntity(Current, typeName, space, entityID, data, client,
                           ccMigrate, entityID, pv),
              [NoOp EXCEPT !.op = "MigrateIn", !.id = entityID,
                           !.arg = client.clientid])
    /\ UNCHANGED <<declared, posted, descs, registeredEntityTypes, registeredServices, pendingLoads,
                   snapshot, phase, frozen>>

\* Entity.Destroy: the client binding is cleared and the entity leaves the
\* table; the services it provided are undeclared.
destroyEntity(m, id) ==
    LET m1 == SetClient(m, id, NoClient)
    IN  Logged([m1 EXCEPT !.entities = del(@, id)], "Destroy", id, 0)

Destroy(id) ==
    /\ Running
    /\ id \in DOMAIN entities
    /\ Commit(destroyEntity(Current, id), [NoOp EXCEPT !.op = "Destroy", !.id = id])
    /\ registeredServices' =
           [sn \in DOMAIN registeredServices |-> registeredServices[sn] \ {id}]
    /\ declared' = {d \in declared : d[2] # id}
    /\ UNCHANGED <<posted, descs, registeredEntityTypes, pendingLoads,
                   snapshot, phase, frozen>>

\* GetEntity(id)
GetEntity(id) == get(entities, id)

\* Entity.EnterSpace(spaceID, pos): the entity starts to enter the space,
\* which it records as its entering-space record.
EnterSpace(m, id, spaceID) ==
    Logged([m EXCEPT !.entities[id].esr = spaceID], "EnterSpace", id, spaceID)

\* User code asks a resident entity to enter a space.
EnterSpaceCall(id, spaceID) ==
    /\ Running
    /\ id \in DOMAIN entities
    /\ Commit(EnterSpace(Current, id, spaceID),
              [NoOp EXCEPT !.op = "EnterSpace", !.id = id, !.arg = spaceID])
    /\ UNCHANGED <<declared, posted, descs, registeredEntityTypes, registeredServices,
                   pendingLoads, snapshot, phase, frozen>>

\* The main loop runs the oldest posted task: the closure restore posted,
\* entity := GetEntity(eid); if entity != nil { entity.EnterSpace(...) }.
RunPosted ==
    /\ Running
    /\ posted # <<>>
    /\ LET t == Head(posted)
       IN  Commit(IF get(entities, t.eid) # <<>>
                  THEN EnterSpace(Current, t.eid, t.spaceID)
                  ELSE Current,
                  [NoOp EXCEPT !.op = "RunPosted", !.id = t.eid, !.arg = t.spaceID])
    /\ posted' = Tail(posted)
    /\ UNCHANGED <<declared, descs, registeredEntityTypes, registeredServices,
                   pendingLoads, snapshot, phase, frozen>>

\* User code binds or unbinds the client of a resident entity.
SetClientCall(id, client) ==
    /\ Running
    /\ id \in DOMAIN entities
    /\ Commit(Logged(SetClient(Current, id, client), "SetClient", id, 0),
              [NoOp EXCEPT !.op = "SetClient", !.id = id, !.arg = client.clientid])
    /\ UNCHANGED <<declared, posted, descs, registeredEntityTypes, registeredServices, pendingLoads,
                   snapshot, phase, frozen>>

\* EntityManager.onClientDisconnected
onClientDisconnected(m, clientid, r) ==
    LET eid == IF clientid \in DOMAIN m.ownerOfClient
               THEN m.ownerOfClient[clientid]
               ELSE NilEntityID
    IN  IF eid # NilEntityID
        THEN LET m1 == [m EXCEPT !.ownerOfClient = onEntityLoseClient(@, clientid)]
             IN  IF eid \in DOMAIN m1.entities
                 THEN notifyClientDisconnected(m1, eid, r)
                 ELSE [m1 EXCEPT !.fault = "error"]
        ELSE m

OnClientDisconnected(clientid, r) ==
    /\ Running
    /\ r.to # clientid
    /\ Commit(onClientDisconnected(Current, clientid, r),
              [NoOp EXCEPT !.op = "OnClientDisconnected", !.arg = clientid])
    /\ UNCHANGED <<declared, posted, descs, registeredEntityTypes, registeredServices, pendingLoads,
                   snapshot, phase, frozen>>

\* OnCall(id, method, args, clientID): an absent entity is logged and the
\* call dropped; a resident one is delivered onCallFromRemote.
OnCall(id, clientID) ==
    /\ Running
    /\ Commit(IF get(entities, id) = <<>>
              THEN Logged(Current, "gwlog.Error", id, 0)
              ELSE Logged(Current, "onCallFromRemote", id, 0),
              [NoOp EXCEPT !.op = "OnCall", !.id = id, !.arg = clientID])
    /\ UNCHANGED <<declared, posted, descs, registeredEntityTypes, registeredServices,
                   pendingLoads, snapshot, phase, frozen>>

\* OnSyncPositionYawFromClient(eid, x, y, z, yaw)
OnSyncPositionYawFromClient(eid) ==
    /\ Running
    /\ Commit(IF get(entities, eid) = <<>>
              THEN Logged(Current, "gwlog.Error", eid, 0)
              ELSE Logged(Current, "syncPositionYawFromClient", eid, 0),
              [NoOp EXCEPT !.op = "OnSyncPositionYawFromClient", !.id = eid])
    /\ UNCHANGED <<declared, posted, descs, registeredEntityTypes, registeredServices,
                   pendingLoads, snapshot, phase, frozen>>

\* Faulty variant: the gate of the client is not compared.
GateMatchesAnyGate(client, gateid) == client # NoClient

\* client != nil && client.gateid == gateid
GateMatches(client, gateid) == client # NoClient /\ client.gateid = gateid

\* EntityManager.onGateDisconnected; order is the order in which the range
\* over the entity map yields the entities, react what each notified
\* entity's hook does.
RECURSIVE onGateDisconnected(_, _, _, _)
onGateDisconnected(m, order, gateid, react) ==
    IF order = <<>> THEN m
    ELSE
      LET id == Head(order)
          client == m.entities[id].client
          m1 == IF GateMatches(client, gateid)
                THEN notifyClientDisconnected(
                         [m EXCEPT !.ownerOfClient =
                                       onEntityLoseClient(@, client.clientid)],
                         id, react[id])
                ELSE m
      IN  onGateDisconnected(m1, Tail(order), gateid, react)

\* The orders in which a range over a map with key set S can visit it.
RECURSIVE Orders(_)
Orders(S) ==
    IF S = {} THEN {<<>>}
    ELSE UNION {{<<x>> \o o : o \in Orders(S \ {x})} : x \in S}

OnGateDisconnected(gateid, order, react) ==
    /\ Running
    /\ \A x \in DOMAIN entities :
          \/ react[x] = NoReaction
          \/ /\ entities[x].client.gateid = gateid
             /\ react[x].do = "rebind" => GateOf(react[x].to) # gateid
    /\ Commit(onGateDisconnected(Current, order, gateid, react),
              [NoOp EXCEPT !.op = "OnGateDisconnected", !.arg = gateid])
    /\ UNCHANGED <<declared, posted, descs, registeredEntityTypes, registeredServices, pendingLoads,
                   snapshot, phase, frozen>>

(***************************************************************************)
(* Service directory.                                                      *)
(***************************************************************************)
onDeclareService(services, serviceName, eid) ==
    LET eids == IF serviceName \in DOMAIN services THEN services[serviceName] ELSE {}
    IN  MapPut(services, serviceName, eids \cup {eid})

\* Faulty variant: the whole entry of the service is dropped.
onUndeclareServiceDropsAll(services, serviceName, eid) ==
    IF serviceName \in DOMAIN services
    THEN [services EXCEPT ![serviceName] = {}]
    ELSE services

onUndeclareService(services, serviceName, eid) ==
    IF serviceName \in DOMAIN services
    THEN [services EXCEPT ![serviceName] = @ \ {eid}]
    ELSE services

OnDeclareService(serviceName, eid) ==
    /\ Running
    /\ registeredServices' = onDeclareService(registeredServices, serviceName, eid)
    /\ log' = <<>>
    /\ lastOp' = [NoOp EXCEPT !.op = "OnDeclareService", !.arg = serviceName, !.id = eid]
    /\ declared' = declared \cup {<<serviceName, eid>>}
    /\ UNCHANGED <<posted, descs, registeredEntityTypes, entities, ownerOfClient, pendingLoads,
                   snapshot, phase, frozen>>

OnUndeclareService(serviceName, eid) ==
    /\ Running
    /\ registeredServices' = onUndeclareService(registeredServices, serviceName, eid)
    /\ log' = <<>>
    /\ lastOp' = [NoOp EXCEPT !.op = "OnUndeclareService", !.arg = serviceName, !.id = eid]
    /\ declared' = declared \ {<<serviceName, eid>>}
    /\ UNCHANGED <<posted, descs, registeredEntityTypes, entities, ownerOfClient, pendingLoads,
                   snapshot, phase, frozen>>

\* GetServiceProviders(serviceName): the set stored under the name; a
\* missing key reads as the nil set, which is empty.
GetServiceProviders(serviceName) ==
    IF serviceName \in DOMAIN registeredServices
    THEN registeredServices[serviceName]
    ELSE {}

\* rand.Intn(n): the numbers it can return; it panics when n <= 0.
Intn(n) == 0..(n - 1)

\* Faulty variant: r is decremented before it is compared.
RECURSIVE ProviderAtSkipsFirst(_, _)
ProviderAtSkipsFirst(order, r) ==
    IF order = <<>> THEN NilEntityID
    ELSE IF r - 1 = 0 THEN Head(order)
         ELSE ProviderAtSkipsFirst(Tail(order), r - 1)

\* for eid := range eids { if r == 0 { return eid }; r -= 1 }; return ""
\* order is the order in which the range yields the set.
RECURSIVE ProviderAt(_, _)
ProviderAt(order, r) ==
    IF order = <<>> THEN NilEntityID
    ELSE IF r = 0 THEN Head(order)
         ELSE ProviderAt(Tail(order), r - 1)

\* EntityManager.chooseServiceProvider: the id returned and the panic raised.
\* r is what rand.Intn(len(eids)) returned, pv what gwlog.Panicf panics with;
\* rand.Intn(0) panics with a string.
chooseServiceProvider(services, serviceName, r, order, pv) ==
    IF serviceName \notin DOMAIN services
    THEN [eid |-> NilEntityID, fault |-> pv]
    ELSE IF services[serviceName] = {}
         THEN [eid |-> NilEntityID, fault |-> "nonerror"]
         ELSE [eid |-> ProviderAt(order, r), fault |-> NoFault]

ChooseServiceProvider(serviceName, r, order, pv) ==
    /\ Running
    /\ LET c == chooseServiceProvider(registeredServices, serviceName, r, order, pv)
       IN  lastOp' = [NoOp EXCEPT !.op = "chooseServiceProvider", !.arg = serviceName,
                                 !.id = c.eid, !.fault = c.fault]
    /\ log' = <<>>
    /\ UNCHANGED <<declared, posted, descs, registeredEntityTypes, entities, ownerOfClient,
                   registeredServices, pendingLoads, snapshot, phase, frozen>>

(***************************************************************************)
(* Loading an entity from storage.                                         *)
(***************************************************************************)
\* space.IsDestroyed(): a destroyed space has left the entity table.
IsDestroyed(ents, space) == space \notin DOMAIN ents

\* The requests storage has not answered are told apart by a number.
FreeReqs == (1..MaxLoads) \ {l.req : l \in pendingLoads}

\* loadEntityLocally(typeName, entityID, space, pos): the request; its
\* completion is a later task. space is 0 for nil.
loadEntityLocally(typeName, entityID, space) ==
    /\ Running
    /\ FreeReqs # {}
    /\ pendingLoads' = pendingLoads \cup
                         {[typeName |-> typeName, id |-> entityID, space |-> space,
                           req |-> CHOOSE r \in FreeReqs : \A q \in FreeReqs : r <= q]}
    /\ log' = <<Ev("storage.Load", entityID, 0)>>
    /\ lastOp' = [NoOp EXCEPT !.op = "LoadEntityLocally", !.id = entityID, !.arg = space]
    /\ UNCHANGED <<declared, posted, descs, registeredEntityTypes, entities, ownerOfClient, registeredServices,
                   snapshot, phase, frozen>>

\* LoadEntityLocally(typeName, entityID)
LoadEntityLocally(typeName, entityID) == loadEntityLocally(typeName, entityID, 0)

\* Faulty variant: the space is not looked at when the load completes.
loadCallbackNoSpaceCheck(m, l, err, data, pv) ==
    IF err
    THEN [Logged(m, "Panicf", l.id, 0) EXCEPT !.fault = pv]
    ELSE createEntity(m, l.typeName, getSpace(m.entities, l.space), l.id, data,
                      NoClient, ccCreate, l.id, pv)

\* The completion callback of storage.Load, run on the main loop. err is
\* whether storage reports an error, data what it loaded, pv the value
\* gwlog.Panicf panics with.
loadCallback(m, l, err, data, pv) ==
    IF err
    THEN [Logged(m, "Panicf", l.id, 0) EXCEPT !.fault = pv]
    ELSE IF l.space # 0 /\ IsDestroyed(m.entities, l.space)
         THEN Logged(m, "SendNotifyDestroyEntity", l.id, 0)
         ELSE createEntity(m, l.typeName, l.space, l.id, data, NoClient,
                           ccCreate, l.id, pv)

LoadComplete(l, err, data, pv) ==
    /\ Running
    /\ l \in pendingLoads
    /\ pendingLoads' = pendingLoads \ {l}
    /\ Commit(loadCallback(Current, l, err, data, pv),
              [NoOp EXCEPT !.op = "LoadComplete", !.id = l.id, !.err = err])
    /\ UNCHANGED <<declared, posted, descs, registeredEntityTypes, registeredServices, snapshot, phase, frozen>>

(***************************************************************************)
(* Freeze and restore.                                                     *)
(***************************************************************************)
\* e.IsSpaceEntity() && e.ToSpace().IsNil()
IsNilSpace(e) == e.typeName = SPACE_ENTITY_TYPE /\ e.kind = 0

\* Entity.GetFreezeData: type, attributes (the space kind), bound client,
\* containing space, entering-space record.
GetFreezeData(e) ==
    [Type |-> e.typeName, Kind |-> e.kind, Client |-> e.client, SpaceID |-> e.space,
     ESR |-> e.esr]

\* Faulty variant: a second nil-space is not reported.
RECURSIVE FreezeScanNoDuplicateCheck(_, _, _)
FreezeScanNoDuplicateCheck(ents, order, foundNilSpace) ==
    IF order = <<>>
    THEN IF foundNilSpace THEN "" ELSE "nil space not found"
    ELSE FreezeScanNoDuplicateCheck(ents, Tail(order),
                                    foundNilSpace \/ IsNilSpace(ents[Head(order)]))

\* The loop of Freeze over the entity map, in the order the range yields.
RECURSIVE FreezeScan(_, _, _)
FreezeScan(ents, order, foundNilSpace) ==
    IF order = <<>>
    THEN IF foundNilSpace THEN "" ELSE "nil space not found"
    ELSE IF IsNilSpace(ents[Head(order)])
         THEN IF foundNilSpace
              THEN "found duplicate nil space"
              ELSE FreezeScan(ents, Tail(order), TRUE)
         ELSE FreezeScan(ents, Tail(order), foundNilSpace)

\* EntityIDSet.ToList: the lists it can return for a set (its elements once
\* each, in the order the range over the set yields them), and the choices
\* of one list per service.
ToLists(S) == Orders(S)

RECURSIVE ListChoices(_, _)
ListChoices(services, names) ==
    IF names = {} THEN {EmptyMap}
    ELSE LET sn == CHOOSE x \in names : TRUE
         IN  {MapPut(f, sn, l) : f \in ListChoices(services, names \ {sn}),
                                 l \in ToLists(services[sn])}

\* Freeze(gameid): the error ("" for nil) and the snapshot (<<>> for nil).
\* lists gives, per service, the list ToList returns.
Freeze(ents, services, order, lists) ==
    LET err == FreezeScan(ents, order, FALSE)
    IN  IF err # ""
        THEN [err |-> err, data |-> <<>>]
        ELSE [err |-> "",
              data |-> <<[Entities |-> [x \in DOMAIN ents |-> GetFreezeData(ents[x])],
                          Services |-> [sn \in DOMAIN services |-> lists[sn]]]>>]

DoFreeze(order, lists) ==
    /\ Running
    /\ LET r == Freeze(entities, registeredServices, order, lists)
       IN  /\ snapshot' = IF r.err = "" THEN r.data ELSE snapshot
           /\ frozen' = IF r.err = ""
                        THEN <<[entities |-> entities, services |-> registeredServices]>>
                        ELSE frozen
           /\ phase' = IF r.err = "" THEN "frozen" ELSE phase
           /\ lastOp' = [NoOp EXCEPT !.op = "Freeze", !.err = (r.err # "")]
    /\ log' = <<>>
    /\ UNCHANGED <<declared, posted, descs, registeredEntityTypes, entities, ownerOfClient, registeredServices,
                   pendingLoads>>

\* The frozen process exits and its successor starts: the package-level
\* registry and manager are constructed anew, and the snapshot is at hand.
Restart ==
    /\ phase = "frozen"
    /\ phase' = "running"
    /\ registeredEntityTypes' = {}
    /\ entities' = EmptyMap
    /\ ownerOfClient' = EmptyMap
    /\ registeredServices' = EmptyMap
    /\ descs' = EmptyMap
    /\ declared' = {}
    /\ pendingLoads' = {}
    /\ posted' = <<>>
    /\ log' = <<>>
    /\ lastOp' = [NoOp EXCEPT !.op = "Restart"]
    /\ UNCHANGED <<snapshot, frozen>>

\* Faulty variant: the first two filters are exchanged.
RestoreFilterSpacesFirst(step, typeName, spaceKind) ==
    CASE step = 1 -> typeName = SPACE_ENTITY_TYPE /\ spaceKind # 0
      [] step = 2 -> typeName = SPACE_ENTITY_TYPE /\ spaceKind = 0
      [] OTHER -> typeName # SPACE_ENTITY_TYPE

\* The three filters of RestoreFreezedEntities.
RestoreFilter(step, typeName, spaceKind) ==
    CASE step = 1 -> typeName = SPACE_ENTITY_TYPE /\ spaceKind = 0
      [] step = 2 -> typeName = SPACE_ENTITY_TYPE /\ spaceKind # 0
      [] OTHER -> typeName # SPACE_ENTITY_TYPE

\* Faulty variant: the entity enters the space at once, while the restore runs.
PostEnterSpaceInline(m, eid, esr) ==
    IF m.fault = NoFault /\ esr # 0
    THEN Logged([m EXCEPT !.entities[eid].esr = esr], "EnterSpace", eid, esr)
    ELSE m

\* if info.ESR != nil { post.Post(func() { ... }) }, reached when createEntity
\* has returned; the log records the task posted for eid with ESR.SpaceID.
PostEnterSpace(m, eid, esr) ==
    IF m.fault = NoFault /\ esr # 0
    THEN Logged(m, "post.Post", eid, esr)
    ELSE m

\* The tasks a log shows posted, in order.
PostedBy(lg) ==
    LET evs == SelectSeq(lg, LAMBDA ev : ev[1] = "post.Post")
    IN  [i \in 1..Len(evs) |-> [eid |-> evs[i][2], spaceID |-> evs[i][3]]]

\* restoreEntities(filter): one pass over freeze.Entities in the order the
\* range yields; a panic ends the pass.
RECURSIVE restoreEntities(_, _, _, _, _)
restoreEntities(m, fd, order, step, pv) ==
    IF order = <<>> \/ m.fault # NoFault THEN m
    ELSE
      LET eid == Head(order)
          info == fd.Entities[eid]
          typeName == info.Type
          spaceKind == IF typeName = SPACE_ENTITY_TYPE THEN info.Kind ELSE 0
          space == IF typeName # SPACE_ENTITY_TYPE
                   THEN getSpace(m.entities, info.SpaceID)
                   ELSE 0
          client == IF info.Client # NoClient
                    THEN MakeGameClient(info.Client.clientid, info.Client.gateid)
                    ELSE NoClient
          m1 == IF RestoreFilter(step, typeName, spaceKind)
                THEN PostEnterSpace(createEntity(m, typeName, space, eid,
                                                 MakeData(info.Kind), client,
                                                 ccRestore, eid, pv),
                                    eid, info.ESR)
                ELSE m
      IN  restoreEntities(m1, fd, Tail(order), step, pv)

\* The service directory after the last loop of RestoreFreezedEntities.
RestoreServices(services, fd) ==
    [sn \in (DOMAIN services) \cup (DOMAIN fd.Services) |->
        IF sn \in DOMAIN fd.Services
        THEN ListSet(fd.Services[sn])
        ELSE services[sn]]

\* The deferred recover: a panic value that is an error is wrapped and
\* returned; the type assertion _err.(error) on any other value panics anew.
Recovered(fault) ==
    CASE fault = NoFault -> [fault |-> NoFault, err |-> FALSE]
      [] fault = "error" -> [fault |-> NoFault, err |-> TRUE]
      [] OTHER -> [fault |-> "error", err |-> FALSE]

\* RestoreFreezedEntities(freeze)
Restore(order, pv) ==
    /\ Running
    /\ snapshot # <<>>
    /\ LET fd == snapshot[1]
           m1 == restoreEntities(Current, fd, order, 1, pv)
           m2 == restoreEntities(m1, fd, order, 2, pv)
           m3 == restoreEntities(m2, fd, order, 3, pv)
           r == Recovered(m3.fault)
       IN  /\ entities' = m3.entities
           /\ ownerOfClient' = m3.ownerOfClient
           /\ log' = m3.log
           /\ registeredServices' = IF m3.fault = NoFault
                                    THEN RestoreServices(registeredServices, fd)
                                    ELSE registeredServices
           /\ lastOp' = [NoOp EXCEPT !.op = "Restore", !.fault = r.fault, !.err = r.err,
                                     !.arg = Cardinality(DOMAIN entities)
                                             + Cardinality(DOMAIN ownerOfClient)
                                             + Cardinality(DOMAIN registeredServices)]
           /\ posted' = posted \o PostedBy(m3.log)
           /\ declared' =
                  IF m3.fault = NoFault
                  THEN {d \in declared : d[1] \notin DOMAIN fd.Services}
                           \cup UNION {{<<sn, e>> : e \in ListSet(fd.Services[sn])} :
                                           sn \in DOMAIN fd.Services}
                  ELSE declared
    /\ snapshot' = <<>>
    /\ frozen' = <<>>
    /\ UNCHANGED <<descs, registeredEntityTypes, pendingLoads, phase>>

(***************************************************************************)
(* Specifications.                                                         *)
(***************************************************************************)
DoRegister == \E t \in TypeNames : RegisterEntity(t)

\* The values gwlog.Panicf can panic with, where it is reached.
PanicsFor(typeName) ==
    IF typeName \in registeredEntityTypes THEN {"error"} ELSE PanicValues

BoundIds == 1..MaxBound
AnyClient == {NoClient} \cup GameClients
OneClient == {NoClient, MakeGameClient(1, GateOf(1))}

\* Players created here and arriving from peers, with any client.
DoCreatePlayer ==
    \E c \in AnyClient, gen \in FreshIds \cap BoundIds, pv \in PanicsFor(PlayerType) :
        CreateEntityLocally(PlayerType, NoData, c, gen, pv)

DoMigratePlayer ==
    \E c \in AnyClient, id \in FreshIds \cap BoundIds, pv \in PanicsFor(PlayerType) :
        MigrateIn(PlayerType, 0, id, MakeData(0), c, pv)

\* Entities of every type, with and without data, into and out of spaces.
DoCreate ==
    \E t \in TypeNames, c \in OneClient, gen \in FreshIds \cap BoundIds :
        \E d \in DataFor(t), pv \in PanicsFor(t) :
            CreateEntityLocally(t, d, c, gen, pv)

DoMigrateIn ==
    \E t \in TypeNames, c \in OneClient, id \in BoundIds,
       sp \in {0} \cup ResidentSpaces :
        \E d \in DataFor(t), pv \in PanicsFor(t) :
            MigrateIn(t, sp, id, d, c, pv)

DoSetClient ==
    \E id \in BoundIds, c \in AnyClient : SetClientCall(id, c)

DoClientDisconnected ==
    \E c \in ClientIds, r \in Reactions : OnClientDisconnected(c, r)

DoGateDisconnected ==
    \E g \in GateIds, order \in Orders(DOMAIN entities),
       react \in [DOMAIN entities -> Reactions] :
        OnGateDisconnected(g, order, react)

DoDeclare == \E s \in ServiceNames, e \in EntityIds : OnDeclareService(s, e)

DoUndeclare == \E s \in ServiceNames, e \in EntityIds : OnUndeclareService(s, e)

\* Clients: creation, migration, bind / unbind, client and gate disconnects.
NextClient ==
    \/ DoRegister
    \/ DoCreatePlayer
    \/ DoMigratePlayer
    \/ DoSetClient
    \/ DoClientDisconnected
    \/ DoGateDisconnected

SpecClient == Init /\ [][NextClient]_vars

\* The lifecycle: creation and migration of entities of every type.
NextLife ==
    \/ DoRegister
    \/ DoCreate
    \/ DoMigrateIn

SpecLife == Init /\ [][NextLife]_vars

\* Entity ids are interchangeable here: a new entity takes the least unused one.
NextIds == {x \in FreshIds : \A y \in FreshIds : x <= y}

DoDestroy == \E id \in EntityIds : Destroy(id)

\* Loads: requests to storage and their completions.
DoLoad == \E id \in BoundIds : LoadEntityLocally(PlayerType, id)

DoLoadComplete ==
    \E l \in pendingLoads, err \in BOOLEAN :
        \E d \in DataFor(l.typeName),
           pv \in (IF err THEN PanicValues ELSE PanicsFor(l.typeName)) :
            d.present /\ LoadComplete(l, err, d, pv)

\* Loads into a resident space, which may be destroyed before they complete.
DoCreateSpace ==
    \E gen \in NextIds \cap BoundIds, k \in SpaceKinds,
       pv \in PanicsFor(SPACE_ENTITY_TYPE) :
        CreateEntityLocally(SPACE_ENTITY_TYPE, MakeData(k), NoClient, gen, pv)

DoLoadInto ==
    \E id \in NextIds, sp \in ResidentSpaces :
        loadEntityLocally(PlayerType, id, sp)

DoDestroySpace == \E id \in ResidentSpaces : Destroy(id)

NextLoad ==
    \/ DoRegister
    \/ DoLoad
    \/ DoLoadComplete
    \/ DoCreateSpace
    \/ DoLoadInto
    \/ DoDestroySpace

SpecLoad == Init /\ [][NextLoad]_vars

\* Freeze and restore: a resident set is built, frozen, and restored by the
\* restarted process, which restores before it creates anything itself.
NoSnapshot == snapshot = <<>>

ClientsFor(typeName) == IF typeName = PlayerType THEN OneClient ELSE {NoClient}

DoCreateAny ==
    \E t \in TypeNames, gen \in NextIds :
        \E c \in ClientsFor(t), d \in DataFor(t), pv \in PanicsFor(t) :
            NoSnapshot /\ d.present /\ CreateEntityLocally(t, d, c, gen, pv)

\* A player arrives from a peer into a resident space.
DoMigrateInto ==
    \E id \in NextIds, sp \in ResidentSpaces, c \in OneClient,
       pv \in PanicsFor(PlayerType) :
        NoSnapshot /\ MigrateIn(PlayerType, sp, id, MakeData(0), c, pv)

\* As DoCreateAny, for a resident set of at most MaxBound entities.
DoCreateBound ==
    \E t \in TypeNames, gen \in NextIds \cap BoundIds :
        \E c \in ClientsFor(t), d \in DataFor(t), pv \in PanicsFor(t) :
            NoSnapshot /\ d.present /\ CreateEntityLocally(t, d, c, gen, pv)

DoDeclareBound == \E e \in BoundIds : NoSnapshot /\ OnDeclareService(1, e)

DoUndeclareBound == \E e \in BoundIds : NoSnapshot /\ OnUndeclareService(1, e)

DoFreezeAny ==
    \E order \in Orders(DOMAIN entities),
       lists \in ListChoices(registeredServices, DOMAIN registeredServices) :
        DoFreeze(order, lists)

\* The types of the entities of the snapshot at hand.
SnapshotTypes ==
    IF snapshot = <<>> THEN {}
    ELSE {snapshot[1].Entities[x].Type : x \in DOMAIN snapshot[1].Entities}

DoRestore ==
    \E order \in Orders(IF snapshot = <<>> THEN {} ELSE DOMAIN snapshot[1].Entities),
       pv \in (IF SnapshotTypes \subseteq registeredEntityTypes
               THEN {"error"} ELSE PanicValues) :
        Restore(order, pv)

NextFreeze ==
    \/ DoRegister
    \/ DoCreateAny
    \/ DoMigrateInto
    \/ DoFreezeAny
    \/ Restart
    \/ DoRestore

SpecFreeze == Init /\ [][NextFreeze]_vars

\* The round trip: services declared and undeclared, and every entity
\* created here.
NextRoundTrip ==
    \/ DoRegister
    \/ DoCreateBound
    \/ DoDeclareBound
    \/ DoUndeclareBound
    \/ DoFreezeAny
    \/ Restart
    \/ DoRestore

SpecRoundTrip == Init /\ [][NextRoundTrip]_vars

DoChoose ==
    \E s \in ServiceNames :
        \E order \in Orders(GetServiceProviders(s)),
           r \in (IF GetServiceProviders(s) = {} THEN {0}
                  ELSE Intn(Cardinality(GetServiceProviders(s)))),
           pv \in (IF s \in DOMAIN registeredServices THEN {"error"} ELSE PanicValues) :
            ChooseServiceProvider(s, r, order, pv)

\* Services: declarations, undeclarations and the choice of a provider.
NextService ==
    \/ DoDeclare
    \/ DoUndeclare
    \/ DoChoose

SpecService == Init /\ [][NextService]_vars

\* User callbacks that panic: entities of every type, the raising one
\* included, created, migrated in, frozen and restored.
CreatureTypes == {PlayerType, RaisingType}

DoRegisterAny == \E t \in AllTypes : RegisterEntity(t)

DoCreateCreature ==
    \E t \in AllTypes, gen \in NextIds \cap BoundIds :
        \E c \in (IF t \in CreatureTypes THEN OneClient ELSE {NoClient}),
           d \in (IF t \in CreatureTypes THEN {NoData, MakeData(0)} ELSE {MakeData(0)}),
           pv \in PanicsFor(t) :
            NoSnapshot /\ CreateEntityLocally(t, d, c, gen, pv)

DoMigrateCreature ==
    \E t \in CreatureTypes, id \in NextIds \cap BoundIds,
       sp \in {0} \cup ResidentSpaces, c \in OneClient :
        \E d \in {NoData, MakeData(0)}, pv \in PanicsFor(t) :
            NoSnapshot /\ MigrateIn(t, sp, id, d, c, pv)

NextCallback ==
    \/ DoRegisterAny
    \/ DoCreateCreature
    \/ DoMigrateCreature
    \/ DoFreezeAny
    \/ Restart
    \/ DoRestore

SpecCallback == Init /\ [][NextCallback]_vars

\* Attribute classification: a type is registered and its attributes are
\* defined, either one attribute with up to two defs or two attributes with
\* up to one def each.
Str_server == <<115, 101, 114, 118, 101, 114>>

AttrDefMenu == {Str_client, Str_allclients, Str_AllClients, Str_Persistent, Str_server}

ShortDefLists == {<<>>} \cup {<<a>> : a \in AttrDefMenu}

DefLists == ShortDefLists \cup {<<a, b>> : a, b \in AttrDefMenu}

AttrDefsInputs ==
    UNION {[{a} -> DefLists] : a \in AttrNames}
        \cup UNION {[{a, b} -> ShortDefLists] : a, b \in AttrNames}

HitsInvalid(attrDefs) ==
    \E a \in DOMAIN attrDefs : attrFlags(attrDefs[a], NoFlags).invalid

DoRegisterPlayer == RegisterEntity(PlayerType)

DoDefineAttrs ==
    \E attrDefs \in AttrDefsInputs :
        \E order \in Orders(DOMAIN attrDefs),
           pv \in (IF HitsInvalid(attrDefs) THEN PanicValues ELSE {"error"}) :
            DefineAttrs(PlayerType, attrDefs, order, pv)

NextAttrs ==
    \/ DoRegisterPlayer
    \/ DoDefineAttrs

SpecAttrs == Init /\ [][NextAttrs]_vars

\* The entity table: creations here and destructions.
NextTable ==
    \/ DoRegister
    \/ DoCreate
    \/ DoDestroy

SpecTable == Init /\ [][NextTable]_vars

\* Routing: events for entities and clients, while entities are created,
\* loaded and destroyed.
DoCreateBoundPlayer ==
    \E c \in OneClient, gen \in NextIds \cap BoundIds, pv \in PanicsFor(PlayerType) :
        CreateEntityLocally(PlayerType, NoData, c, gen, pv)

DoLoadOk ==
    \E l \in pendingLoads, pv \in PanicsFor(PlayerType) :
        LoadComplete(l, FALSE, MakeData(0), pv)

DoDestroyBound == \E id \in BoundIds : Destroy(id)

DoCall == \E id \in BoundIds : OnCall(id, 1)

DoSync == \E id \in BoundIds : OnSyncPositionYawFromClient(id)

DoClientGone == \E c \in 1..MaxBound : OnClientDisconnected(c, NoReaction)

NextRoute ==
    \/ DoRegister
    \/ DoCreateBoundPlayer
    \/ DoLoad
    \/ DoLoadOk
    \/ DoDestroyBound
    \/ DoCall
    \/ DoSync
    \/ DoClientGone

SpecRoute == Init /\ [][NextRoute]_vars

\* Deferred space entries: entities on their way into a space are frozen
\* and restored, the posted tasks run, entities are destroyed.
DoCreatePlain ==
    \E t \in TypeNames, gen \in NextIds \cap BoundIds :
        \E d \in DataFor(t), pv \in PanicsFor(t) :
            NoSnapshot /\ d.present /\ CreateEntityLocally(t, d, NoClient, gen, pv)

\* The space entered is one on a peer.
DoEnterSpace ==
    \E id \in BoundIds, sp \in {MaxEntityId} :
        /\ NoSnapshot
        /\ id \in DOMAIN entities
        /\ entities[id].typeName # SPACE_ENTITY_TYPE
        /\ EnterSpaceCall(id, sp)

\* An entity is destroyed while posted tasks wait.
DoDestroyPending == \E id \in BoundIds : posted # <<>> /\ Destroy(id)

NextDefer ==
    \/ DoRegister
    \/ DoCreatePlain
    \/ DoEnterSpace
    \/ DoFreezeAny
    \/ Restart
    \/ DoRestore
    \/ RunPosted
    \/ DoDestroyPending

SpecDefer == Init /\ [][NextDefer]_vars

\* Every entry point.
Next ==
    \/ NextClient
    \/ NextLife
    \/ NextLoad
    \/ NextFreeze
    \/ NextRoundTrip
    \/ NextService
    \/ NextCallback
    \/ NextTable
    \/ NextRoute
    \/ NextDefer
    \/ NextAttrs

Spec == Init /\ [][Next]_vars

(***************************************************************************)
(* Reading the log of a task.                                              *)
(***************************************************************************)
Count(lg, name, id) ==
    Cardinality({i \in DOMAIN lg : lg[i][1] = name /\ lg[i][2] = id})

Has(lg, name) == \E i \in DOMAIN lg : lg[i][1] = name

\* The createEntity calls of a task: where each starts, and where it ends
\* (its return, or the panic that ends it).
CallStarts(lg) == {i \in DOMAIN lg : lg[i][1] = "createEntity"}

CallEnds == {"return", "Panicf", "panic"}

CallEnd(lg, i) ==
    CHOOSE j \in DOMAIN lg :
        /\ j > i
        /\ lg[j][1] \in CallEnds
        /\ \A k \in DOMAIN lg : (k > i /\ k < j) => lg[k][1] \notin CallEnds

Returned(lg, i) == lg[CallEnd(lg, i)][1] = "return"

\* The steps of the call starting at i that carry one of the names.
StepsOf(lg, i, names) ==
    {k \in DOMAIN lg : k > i /\ k < CallEnd(lg, i) /\ lg[k][1] \in names}

BoundClientOf(ents, e) == ents[e].client.clientid

\* An argument of the call starting at i, as the log records it.
ArgOf(lg, i, name) == lg[CHOOSE k \in StepsOf(lg, i, {name}) : TRUE][2]

\* The id of the entity the call starting at i constructed.
EntityOf(lg, i) == lg[CHOOSE k \in StepsOf(lg, i, {"put"}) : TRUE][2]

(***************************************************************************)
(* C1. At every quiescent point the Client Ownership Index agrees with the *)
(* entities' bound-client fields: ownerOfClient[c] = e exactly when        *)
(* resident entity e has bound client c, and no client id is bound to more *)
(* than one resident entity.                                               *)
(***************************************************************************)
C1_OwnershipIndexAgrees ==
    /\ \A c \in ClientIds, e \in EntityIds :
          (c \in DOMAIN ownerOfClient /\ ownerOfClient[c] = e)
              <=> (e \in DOMAIN entities /\ BoundClientOf(entities, e) = c)
    /\ \A c \in ClientIds :
          Cardinality({e \in DOMAIN entities : BoundClientOf(entities, e) = c}) <= 1

(***************************************************************************)
(* C2. Every service name that is a key of the Service Directory maps to a *)
(* non-empty set of entity ids.                                            *)
(***************************************************************************)
C2_ServiceSetsNonEmpty ==
    \A sn \in DOMAIN registeredServices : registeredServices[sn] # {}

(***************************************************************************)
(* C3. When the storage completion of LoadEntityLocally(typeName, id)      *)
(* reports an error, NotifyDestroyEntity(id) is sent to the dispatcher,    *)
(* createEntity is not entered, and no entry for id appears in the Entity  *)
(* Table.                                                                  *)
(***************************************************************************)
C3_LoadErrorNotifiesDestroy ==
    [][(lastOp'.op = "LoadComplete" /\ lastOp'.err) =>
          /\ Count(log', "SendNotifyDestroyEntity", lastOp'.id) >= 1
          /\ ~Has(log', "createEntity")
          /\ (lastOp'.id \notin DOMAIN entities => lastOp'.id \notin DOMAIN entities')
      ]_vars

(***************************************************************************)
(* C4. RestoreFreezedEntities creates no snapshot entity twice, creates    *)
(* each with cause Restore, creates every nil-space before any other       *)
(* space and every space before any non-space entity, and, when it         *)
(* returns without an error, has created every entity of the snapshot.     *)
(***************************************************************************)
RestorePhase(info) ==
    IF info.Type = SPACE_ENTITY_TYPE
    THEN IF info.Kind = 0 THEN 1 ELSE 2
    ELSE 3

C4_RestoreOrder ==
    [][lastOp'.op = "Restore" =>
          LET fd == snapshot[1]
              starts == CallStarts(log')
          IN  /\ \A i \in starts :
                    /\ log'[i][2] \in DOMAIN fd.Entities
                    /\ log'[i][3] = ccRestore
              /\ \A i, j \in starts :
                    i < j =>
                        /\ log'[i][2] # log'[j][2]
                        /\ RestorePhase(fd.Entities[log'[i][2]])
                               <= RestorePhase(fd.Entities[log'[j][2]])
              /\ (lastOp'.fault = NoFault /\ ~lastOp'.err) =>
                    {log'[i][2] : i \in starts} = DOMAIN fd.Entities
      ]_vars

\* A restore of nil-space N, space S and player P in S that created exactly
\* [N, S, P].
C4_Witness ==
    /\ lastOp.op = "Restore"
    /\ lastOp.fault = NoFault /\ ~lastOp.err
    /\ Cardinality(CallStarts(log)) = 3
    /\ \E i, j, k \in CallStarts(log) :
          /\ i < j /\ j < k
          /\ LET n == log[i][2]
                 sp == log[j][2]
                 pl == log[k][2]
             IN  /\ {n, sp, pl} \subseteq DOMAIN entities
                 /\ IsNilSpace(entities[n])
                 /\ entities[sp].typeName = SPACE_ENTITY_TYPE /\ entities[sp].kind # 0
                 /\ entities[pl].typeName = PlayerType /\ entities[pl].space = sp

(***************************************************************************)
(* C5. Freeze -> Restore round trip: RestoreFreezedEntities run on the     *)
(* snapshot Freeze returned, from an empty Entity Table, Client Ownership  *)
(* Index and Service Directory, and returning no error, yields an Entity   *)
(* Table with the same ids and per entity the same type name and client    *)
(* binding (client id and gate id), and a Service Directory with the same  *)
(* names, each mapping to the same set of entity ids.                      *)
(***************************************************************************)
SameResidents(before, after) ==
    /\ DOMAIN after = DOMAIN before
    /\ \A e \in DOMAIN before :
          /\ after[e].typeName = before[e].typeName
          /\ after[e].client = before[e].client

C5_FreezeRestoreRoundTrip ==
    [][(/\ lastOp'.op = "Restore"
        /\ lastOp'.arg = 0
        /\ lastOp'.fault = NoFault
        /\ ~lastOp'.err) =>
          /\ SameResidents(frozen[1].entities, entities')
          /\ registeredServices' = frozen[1].services
      ]_vars

\* A round trip of a resident set that holds a client-bound player and a
\* declared service.
C5_Witness ==
    /\ lastOp.op = "Restore"
    /\ lastOp.arg = 0
    /\ lastOp.fault = NoFault /\ ~lastOp.err
    /\ \E e \in DOMAIN entities : entities[e].client # NoClient
    /\ \E sn \in DOMAIN registeredServices : Cardinality(registeredServices[sn]) >= 2
    /\ Cardinality(DOMAIN entities) >= 2

(***************************************************************************)
(* C6. Freeze returns a snapshot if and only if exactly one resident       *)
(* entity is the nil-space; otherwise it returns an error and no snapshot. *)
(* In every case it leaves the Entity Table, the Client Ownership Index    *)
(* and the Service Directory unchanged.                                    *)
(***************************************************************************)
NilSpaces(ents) == {e \in DOMAIN ents : IsNilSpace(ents[e])}

C6_FreezeIffOneNilSpace ==
    [][lastOp'.op = "Freeze" =>
          /\ (~lastOp'.err) <=> (Cardinality(NilSpaces(entities)) = 1)
          /\ IF lastOp'.err
             THEN snapshot' = snapshot /\ phase' = phase
             ELSE /\ snapshot' # <<>>
                  /\ DOMAIN snapshot'[1].Entities = DOMAIN entities
                  /\ phase' = "frozen"
          /\ UNCHANGED <<entities, ownerOfClient, registeredServices>>
      ]_vars

\* Freeze has refused a resident set with two nil-spaces.
C6_Witness ==
    /\ lastOp.op = "Freeze"
    /\ lastOp.err
    /\ Cardinality(NilSpaces(entities)) = 2
    /\ phase = "running"

(***************************************************************************)
(* C7. Any fault raised during any phase of RestoreFreezedEntities is      *)
(* caught and returned as its error result; it never propagates to the     *)
(* caller as an aborting fault.                                            *)
(***************************************************************************)
C7_RestoreNeverPanics ==
    lastOp.op = "Restore" => lastOp.fault = NoFault

(***************************************************************************)
(* C8. OnGateDisconnected(g): every resident entity whose bound client's   *)
(* gate is g has its client mapping removed from the Ownership Index and   *)
(* is delivered notifyClientDisconnected exactly once; every entity bound  *)
(* to a client on another gate receives no notification and keeps its     *)
(* binding and its Ownership Index entry, whatever the notified entities   *)
(* do with their own bindings in reaction.                                 *)
(***************************************************************************)
IndexEntry(owner, c) == IF c \in DOMAIN owner THEN owner[c] ELSE NilEntityID

C8_GateDisconnectSweep ==
    [][lastOp'.op = "OnGateDisconnected" =>
          \A e \in DOMAIN entities :
              LET client == entities[e].client
              IN  IF client # NoClient /\ client.gateid = lastOp'.arg
                  THEN /\ Count(log', "notifyClientDisconnected", e) = 1
                       /\ client.clientid \notin DOMAIN ownerOfClient'
                  ELSE /\ Count(log', "notifyClientDisconnected", e) = 0
                       /\ entities'[e] = entities[e]
                       /\ client # NoClient =>
                             IndexEntry(ownerOfClient', client.clientid)
                                 = IndexEntry(ownerOfClient, client.clientid)
      ]_vars

\* A sweep that notified one entity, which rebound itself to another
\* client in reaction, and left an entity on another gate bound and indexed.
C8_Witness ==
    /\ lastOp.op = "OnGateDisconnected"
    /\ \E e1, e2 \in DOMAIN entities :
          /\ e1 # e2
          /\ Count(log, "notifyClientDisconnected", e1) = 1
          /\ entities[e1].client # NoClient
          /\ Count(log, "notifyClientDisconnected", e2) = 0
          /\ entities[e2].client # NoClient
          /\ entities[e2].client.gateid # lastOp.arg
          /\ IndexEntry(ownerOfClient, entities[e2].client.clientid) = e2

(***************************************************************************)
(* C9. Every createEntity call that returns has sent exactly one           *)
(* NotifyCreateEntity(entityId) to the dispatcher if its cause is Create   *)
(* or Restore and none if its cause is Migrate; no call sends more.        *)
(***************************************************************************)
NotifiesOf(lg, i) ==
    {k \in StepsOf(lg, i, {"SendNotifyCreateEntity"}) : lg[k][2] = lg[CallEnd(lg, i)][2]}

C9_NotifyCreateByCause ==
    \A i \in CallStarts(log) :
        /\ StepsOf(log, i, {"SendNotifyCreateEntity"}) = NotifiesOf(log, i)
        /\ IF Returned(log, i) /\ log[i][3] \in {ccCreate, ccRestore}
           THEN Cardinality(NotifiesOf(log, i)) = 1
           ELSE Cardinality(NotifiesOf(log, i)) = 0

\* A restore that recreated two entities, each announced once.
C9_Witness ==
    /\ lastOp.op = "Restore"
    /\ Cardinality({i \in CallStarts(log) : Returned(log, i)}) >= 2
    /\ \A i \in CallStarts(log) : Cardinality(NotifiesOf(log, i)) = 1

(***************************************************************************)
(* C10. Every createEntity call that returns has dispatched exactly one    *)
(* user callback, the one its cause selects (Create -> OnCreated,          *)
(* Migrate -> OnMigrateIn, Restore -> OnRestored), after the entity is in  *)
(* the Entity Table, after the dispatcher notification and the client      *)
(* binding, and before the entity enters the supplied space.               *)
(***************************************************************************)
Callbacks == {"OnCreated", "OnMigrateIn", "OnRestored"}

C10_OneCallbackInOrder ==
    \A i \in CallStarts(log) :
        Returned(log, i) =>
            LET cbs == StepsOf(log, i, Callbacks)
            IN  /\ Cardinality(cbs) = 1
                /\ \A k \in cbs :
                      /\ log[k][1] = (CASE log[i][3] = ccCreate -> "OnCreated"
                                        [] log[i][3] = ccMigrate -> "OnMigrateIn"
                                        [] OTHER -> "OnRestored")
                      /\ \E p \in StepsOf(log, i, {"put"}) : p < k
                      /\ \A b \in StepsOf(log, i, {"put", "SendNotifyCreateEntity",
                                                   "SetClient", "onEntityGetClient"}) :
                            b < k
                      /\ \A a \in StepsOf(log, i, {"enter"}) : k < a

\* A player restored with its client into its space: notification, binding,
\* callback and space entry all took place.
C10_Witness ==
    /\ lastOp.op = "Restore"
    /\ \E i \in CallStarts(log) :
          /\ Returned(log, i)
          /\ StepsOf(log, i, {"SendNotifyCreateEntity"}) # {}
          /\ StepsOf(log, i, {"onEntityGetClient"}) # {}
          /\ StepsOf(log, i, {"OnRestored"}) # {}
          /\ StepsOf(log, i, {"enter"}) # {}

(***************************************************************************)
(* C11. When the cause-specific user callback panics inside createEntity,  *)
(* the panic is swallowed: the call still enters the supplied space (and   *)
(* enters none when none was supplied), returns the entity id, and the     *)
(* entity is in the Entity Table bound to the client the call was given,   *)
(* as it is when the callback returns normally.                            *)
(***************************************************************************)
\* The calls of the log that ran a callback of the raising type.
RaisedCalls(lg, ents) ==
    {i \in CallStarts(lg) :
        /\ StepsOf(lg, i, Callbacks) # {}
        /\ EntityOf(lg, i) \in DOMAIN ents
        /\ CallbackRaises(ents[EntityOf(lg, i)].typeName)}

C11_CallbackPanicSwallowed ==
    \A i \in RaisedCalls(log, entities) :
          LET id == EntityOf(log, i)
          IN  /\ Returned(log, i)
              /\ log[CallEnd(log, i)][2] = id
              /\ id # NilEntityID
              /\ (StepsOf(log, i, {"enter"}) # {}) <=> (ArgOf(log, i, "arg.space") # 0)
              /\ ArgOf(log, i, "arg.space") # 0 =>
                    entities[id].space = ArgOf(log, i, "arg.space")
              /\ BoundClientOf(entities, id) = ArgOf(log, i, "arg.client")

\* A raising entity migrated in with a client into a space: its callback
\* panicked, and it entered the space and kept the client.
C11_Witness ==
    /\ lastOp.op = "MigrateIn"
    /\ \E i \in RaisedCalls(log, entities) :
          /\ StepsOf(log, i, {"recover"}) # {}
          /\ StepsOf(log, i, {"enter"}) # {}
          /\ Returned(log, i)
          /\ entities[EntityOf(log, i)].client # NoClient

(***************************************************************************)
(* C12. After any sequence of RegisterEntity, CreateEntityLocally and      *)
(* Destroy: no two resident entities carry the same entity id, every       *)
(* resident entity's own id is the key it is stored under, and the id      *)
(* CreateEntityLocally returns is not the empty id and resolves through    *)
(* GetEntity to the entity the call constructed.                           *)
(***************************************************************************)
\* The id the createEntity call that ends the log returned.
ReturnedId(lg) == lg[Len(lg)][2]

C12_TableKeyedById ==
    /\ \A k \in DOMAIN entities : entities[k].ID = k
    /\ \A k1, k2 \in DOMAIN entities : entities[k1].ID = entities[k2].ID => k1 = k2
    /\ (lastOp.op = "CreateEntityLocally" /\ lastOp.fault = NoFault) =>
          /\ ReturnedId(log) # NilEntityID
          /\ GetEntity(ReturnedId(log)) # <<>>
          /\ GetEntity(ReturnedId(log))[1].ID = ReturnedId(log)
          /\ ReturnedId(log) = EntityOf(log, 1)
          /\ BoundClientOf(entities, ReturnedId(log)) = lastOp.arg

\* A creation that returned an id resolving to its entity while another
\* entity is resident.
C12_Witness ==
    /\ lastOp.op = "CreateEntityLocally"
    /\ lastOp.fault = NoFault
    /\ Cardinality(DOMAIN entities) >= 2
    /\ GetEntity(ReturnedId(log)) # <<>>

(***************************************************************************)
(* C13. chooseServiceProvider(name): for a name that was never declared    *)
(* the call ends in a panic; for a name whose provider set P is not empty  *)
(* it returns an element of P, never the empty id, the index being drawn   *)
(* from 0..|P|-1; and whatever the order in which the set is ranged over,  *)
(* every element of P is the result for some index.                        *)
(***************************************************************************)
C13_ChooseProvider ==
    /\ lastOp.op = "chooseServiceProvider" =>
          LET P == GetServiceProviders(lastOp.arg)
          IN  /\ (\A e \in EntityIds : <<lastOp.arg, e>> \notin declared
                     /\ lastOp.arg \notin DOMAIN registeredServices)
                    => lastOp.fault # NoFault
              /\ P # {} => /\ lastOp.fault = NoFault
                           /\ lastOp.id \in P
                           /\ lastOp.id # NilEntityID
    /\ \A s \in ServiceNames :
          LET P == GetServiceProviders(s)
          IN  \A order \in Orders(P) :
                  /\ \A r \in Intn(Cardinality(P)) : ProviderAt(order, r) \in P
                  /\ \A e \in P : \E r \in Intn(Cardinality(P)) : ProviderAt(order, r) = e

\* A choice among three providers that returned the greatest of them.
C13_Witness ==
    /\ lastOp.op = "chooseServiceProvider"
    /\ lastOp.fault = NoFault
    /\ Cardinality(GetServiceProviders(lastOp.arg)) = 3
    /\ \A e \in GetServiceProviders(lastOp.arg) : e <= lastOp.id

(***************************************************************************)
(* C14. After any sequence of OnDeclareService and OnUndeclareService      *)
(* calls, for every service name s, GetServiceProviders(s) is exactly the  *)
(* set of entity ids declared for s and not undeclared since; so it is     *)
(* empty if and only if every declaration of s has been undeclared.        *)
(***************************************************************************)
Outstanding(s) == {e \in EntityIds : <<s, e>> \in declared}

C14_ProvidersAreOutstanding ==
    \A s \in ServiceNames :
        /\ GetServiceProviders(s) = Outstanding(s)
        /\ (GetServiceProviders(s) = {}) <=> (Outstanding(s) = {})

\* One of two providers of a service has been undeclared; the other remains.
C14_Witness ==
    /\ lastOp.op = "OnUndeclareService"
    /\ Cardinality(GetServiceProviders(lastOp.arg)) = 1
    /\ lastOp.id \notin GetServiceProviders(lastOp.arg)
    /\ \E s \in DOMAIN registeredServices : GetServiceProviders(s) = {}

(***************************************************************************)
(* C15. OnCall and OnSyncPositionYawFromClient for an entity id that is    *)
(* not in the Entity Table, and OnClientDisconnected for a client id that  *)
(* has no owner in the Ownership Index or whose recorded owner is no       *)
(* longer in the Entity Table, are dropped: the call returns without a     *)
(* panic, delivers nothing to any entity, and leaves the Entity Table and  *)
(* the Service Directory unchanged.                                        *)
(***************************************************************************)
Deliveries == {"onCallFromRemote", "syncPositionYawFromClient", "notifyClientDisconnected"}

\* The step is one of the three events, without a matching entity.
NoMatchingEntity ==
    \/ /\ lastOp'.op \in {"OnCall", "OnSyncPositionYawFromClient"}
       /\ lastOp'.id \notin DOMAIN entities
    \/ /\ lastOp'.op = "OnClientDisconnected"
       /\ \/ lastOp'.arg \notin DOMAIN ownerOfClient
          \/ ownerOfClient[lastOp'.arg] \notin DOMAIN entities

C15_LookupMissDropped ==
    [][NoMatchingEntity =>
          /\ lastOp'.fault = NoFault
          /\ \A i \in DOMAIN log' : log'[i][1] \notin Deliveries
          /\ entities' = entities
          /\ registeredServices' = registeredServices
      ]_vars

(***************************************************************************)
(* C16. Every createEntity call that returns has performed exactly one     *)
(* state-materialization action, chosen by (data, cause):                  *)
(* LoadPersistentData when data is non-nil and the cause is Create,        *)
(* LoadMigrateData when data is non-nil and the cause is Migrate or        *)
(* Restore, Save when data is nil; the action comes after the insertion    *)
(* into the Entity Table and before the NotifyCreateEntity send, the       *)
(* client binding, the user callback and the space entry.                  *)
(***************************************************************************)
Materializations == {"LoadPersistentData", "LoadMigrateData", "Save"}

MaterializationFor(dataGiven, cause) ==
    IF dataGiven
    THEN IF cause = ccCreate THEN "LoadPersistentData" ELSE "LoadMigrateData"
    ELSE "Save"

C16_OneMaterialization ==
    \A i \in CallStarts(log) :
        Returned(log, i) =>
            LET mats == StepsOf(log, i, Materializations)
            IN  /\ Cardinality(mats) = 1
                /\ \A k \in mats :
                      /\ log[k][1] = MaterializationFor(ArgOf(log, i, "arg.data") = 1,
                                                        log[i][3])
                      /\ log[k][2] = EntityOf(log, i)
                      /\ \A p \in StepsOf(log, i, {"put"}) : p < k
                      /\ \A a \in StepsOf(log, i,
                                          {"SendNotifyCreateEntity", "SetClient",
                                           "onEntityGetClient", "enter"}
                                              \cup Callbacks) : k < a

\* A migration with data, a client and a space: LoadMigrateData ran between
\* the insertion and the binding, callback and entry.
C16_Witness ==
    /\ lastOp.op = "MigrateIn"
    /\ \E i \in CallStarts(log) :
          /\ Returned(log, i)
          /\ StepsOf(log, i, {"LoadMigrateData"}) # {}
          /\ StepsOf(log, i, {"onEntityGetClient"}) # {}
          /\ StepsOf(log, i, {"enter"}) # {}

(***************************************************************************)
(* C17. For every snapshot entity with an entering-space record (ESR),     *)
(* RestoreFreezedEntities calls no EnterSpace while it runs: it posts one  *)
(* task per such entity it recreates, for that entity and ESR.SpaceID.     *)
(* When a restore returns without an error, every entity of the snapshot   *)
(* is in the Entity Table and the service directory is rebuilt before any  *)
(* of its tasks has run. A posted task, when it runs, calls EnterSpace on  *)
(* its entity with that space id if the entity is resident, and does       *)
(* nothing if it is not.                                                   *)
(***************************************************************************)
WithESR(fd) == {e \in DOMAIN fd.Entities : fd.Entities[e].ESR # 0}

\* The snapshot entities the restore recreated (createEntity returned).
Recreated(lg) == {EntityOf(lg, i) : i \in {j \in CallStarts(lg) : Returned(lg, j)}}

Completed == CHOOSE l \in pendingLoads : l \notin pendingLoads'

C18_LoadIntoDestroyedSpace ==
    [][(/\ lastOp'.op = "LoadComplete"
        /\ ~lastOp'.err
        /\ Completed.space # 0
        /\ Completed.space \notin DOMAIN entities) =>
          /\ lastOp'.fault = NoFault
          /\ log' = <<Ev("SendNotifyDestroyEntity", Completed.id, 0)>>
          /\ ~Has(log', "createEntity")
          /\ entities' = entities
      ]_vars

\* A load into a space completed after the space was destroyed: the
\* dispatcher was told and nothing was created.
C18_Witness ==
    /\ lastOp.op = "LoadComplete"
    /\ ~lastOp.err
    /\ lastOp.fault = NoFault
    /\ log = <<Ev("SendNotifyDestroyEntity", lastOp.id, 0)>>
    /\ lastOp.id \notin DOMAIN entities

(***************************************************************************)
(* C19. After any sequence of DefineAttrs calls on a type descriptor that  *)
(* do not hit an unknown tag, allClientAttrs is a subset of clientAttrs:   *)
(* every attribute tagged allclients, in any letter case, is in both sets. *)
(***************************************************************************)
C19_AllClientsAreClients ==
    [][/\ \A t \in DOMAIN descs' :
             descs'[t].allClientAttrs \subseteq descs'[t].clientAttrs
       /\ (lastOp'.op = "DefineAttrs" /\ lastOp'.fault = NoFault) =>
             lastOp'.arg.allclients \subseteq
                 descs'[lastOp'.arg.typeName].allClientAttrs
                     \cap descs'[lastOp'.arg.typeName].clientAttrs
      ]_vars

\* A call gave an attribute the def AllClients, in capitals, and hit no
\* invalid def; another attribute is a client attribute only.
C19_Witness ==
    /\ lastOp.op = "DefineAttrs"
    /\ lastOp.fault = NoFault
    /\ lastOp.arg.upper # {}
    /\ descs[lastOp.arg.typeName].clientAttrs
          # descs[lastOp.arg.typeName].allClientAttrs

(***************************************************************************)
(* C20. No createEntity call displaces a live entity from the Entity       *)
(* Table: after any sequence of CreateEntityLocally, LoadEntityLocally     *)
(* requests and their completions, RestoreFreezedEntities and Destroy,     *)
(* every entity that was constructed and not destroyed is the one stored   *)
(* under its id. A task that puts an entity under an id that is resident   *)
(* when the task starts, or twice under one id, leaves the earlier entity  *)
(* constructed, not destroyed, and out of the table.                       *)
(***************************************************************************)
C20_NoDisplacement ==
    [][\A i \in DOMAIN log' :
          log'[i][1] = "put" =>
            /\ log'[i][2] \notin DOMAIN entities
            /\ \A j \in DOMAIN log' :
                  (j < i /\ log'[j][1] = "put") => log'[j][2] # log'[i][2]
      ]_vars

====
